---- MODULE Spec2Model ----
(***************************************************************************)
(* The tracing subsystem of the text-analysis application:                 *)
(*   - FileSpanExporter (server/file-span-exporter.js): lazily opened      *)
(*     append-only sink, export / shutdown, and formatReadableSpan;        *)
(*   - the four traced route handlers of server/index.js with              *)
(*     server/validation.js;                                               *)
(*   - the browser: the SimpleTracer and the instrumented window.fetch of  *)
(*     the client instrumentation, and the form's submit handler of        *)
(*     src/app.js.                                                         *)
(* The components are verified under separate specifications over one set  *)
(* of variables: ExporterSpec, FormatSpec, ServerSpec, TracerSpec,         *)
(* ClientSpec.                                                             *)
(***************************************************************************)
EXTENDS Integers, Sequences, FiniteSets, TLC

\* ------------------------------------------------------------------ bounds
MaxCalls == 3      \* export/shutdown calls made on the exporter in one run
MaxBatch == 2      \* spans handed to one export call
MaxCore == 2       \* explicit characters of a request text (after its run of filler)
MaxTime == 1       \* the clock's last value
MaxEvents == 1     \* exception events recorded on a span by a caller of the tracer
MaxEnds == 2       \* end() calls made on a span by a caller of the tracer
MaxSubmits == 1    \* submissions of the form in one run

VARIABLES
  \* FileSpanExporter and its sink
  writeStream,     \* this._writeStream: NoStream (null) or the index of a stream
  dirExists,       \* fs.existsSync(path.dirname(filePath))
  fileExists,      \* the sink file exists on disk
  streams,         \* streams[i]: number of end() calls made on the i-th created stream
  file,            \* what has been appended to the sink, in order
  received,        \* ids of all spans handed to export, in order (history)
  lost,            \* ids of spans whose export call threw at or before their write (history)
  ncalls,          \* number of calls made so far
  last,            \* what the last call did (history)
  \* one request in a route handler of server/index.js
  pc,              \* the handler's position
  req,             \* the request being handled
  spanCalls,       \* the calls made on the request's span, in order
  validated,       \* the result of validateAndSanitizeText
  response,        \* the response sent by the handler
  \* formatReadableSpan applied to one span
  fmtSpan,         \* the span handed to formatReadableSpan
  fmtRecord,       \* the record it returned, as lines of text pieces
  \* the browser: SimpleTracer spans and the clock
  now,             \* performance.now()
  spans,           \* the span objects created by tracer.startSpan, by holder
  \* the browser: the instrumented fetch and the form's submit handler
  storage,         \* sessionStorage's otel_trace_id (<<>>: no such item)
  rand,            \* number of ids drawn from Math.random so far
  calls,           \* the calls made through window.fetch, by url
  cpc,             \* the submit handler's position
  submitted,       \* the input of the submission being handled
  ui,              \* the page: submit button, error area, results area
  sessionHistory,  \* the results kept by addToHistory, newest first
  submits,         \* number of submissions so far
  \* one raw input given to the client's and to the server's validation
  valRaw,          \* the raw input
  valClient,       \* validateInput(raw)
  valServer,       \* validateAndSanitizeText(raw)
  valResent        \* validateAndSanitizeText of the text the client accepted

exporterVars == <<writeStream, dirExists, fileExists, streams, file, received, lost, ncalls, last>>
serverVars == <<pc, req, spanCalls, validated, response>>
formatVars == <<fmtSpan, fmtRecord>>
tracerVars == <<now, spans>>
clientVars == <<storage, rand, calls, cpc, submitted, ui, sessionHistory, submits>>
validationVars == <<valRaw, valClient, valServer, valResent>>
vars == <<exporterVars, serverVars, formatVars, tracerVars, clientVars, validationVars>>
\* What the actions of one component leave alone.
outsideExporter == <<serverVars, formatVars, tracerVars, clientVars, validationVars>>
outsideServer == <<exporterVars, formatVars, tracerVars, clientVars, validationVars>>
outsideFormat == <<exporterVars, serverVars, tracerVars, clientVars, validationVars>>
outsideTracer == <<exporterVars, serverVars, formatVars, clientVars, validationVars>>
outsideBrowser == <<exporterVars, serverVars, formatVars, validationVars>>
outsideValidation == <<exporterVars, serverVars, formatVars, tracerVars, clientVars>>

\* ------------------------------------------------- FileSpanExporter: values
NoStream == 0

\* ExportResultCode of @opentelemetry/core
SUCCESS == "SUCCESS"
FAILURE == "FAILURE"

HeaderEntry == [k |-> "header", id |-> 0]
NewlineEntry == [k |-> "nl", id |-> 0]
RecordEntry(id) == [k |-> "span", id |-> id]

\* The sink operation that throws when (and if) the call executes it.
NoFault == [op |-> "none", i |-> 0]
Faults ==
  {NoFault, [op |-> "mkdir", i |-> 0], [op |-> "create", i |-> 0],
   [op |-> "header", i |-> 0], [op |-> "newline", i |-> 0]}
  \cup {[op |-> o, i |-> j] : o \in {"format", "write"}, j \in 1..MaxBatch}

\* resultCallback, given by the set of result codes on which it throws.
Callbacks == SUBSET {SUCCESS, FAILURE}

NoCall ==
  [op |-> "none", nullish |-> FALSE, n |-> 0, results |-> <<>>,
   threw |-> FALSE, escaped |-> FALSE, cb |-> {}]

\* The part of the state export and shutdown work on.
Sink == [ws |-> writeStream, dir |-> dirExists, fex |-> fileExists,
         streams |-> streams, file |-> file]

\* ------------------------------------------- FileSpanExporter._getStream
\* Returns the sink after the call and whether the call threw.
GetStream(st, fault) ==
  IF st.ws # NoStream THEN [st |-> st, threw |-> FALSE]
  ELSE IF ~st.dir /\ fault.op = "mkdir" THEN [st |-> st, threw |-> TRUE]
  ELSE LET s1 == [st EXCEPT !.dir = TRUE] IN
    IF fault.op = "create" THEN [st |-> s1, threw |-> TRUE]
    ELSE LET s2 == [s1 EXCEPT !.fex = TRUE,
                              !.streams = Append(@, 0),
                              !.ws = Len(s1.streams) + 1] IN
      IF fault.op = "header" THEN [st |-> s2, threw |-> TRUE]
      ELSE [st |-> [s2 EXCEPT !.file = Append(@, HeaderEntry)], threw |-> FALSE]

\* WriteSpans with the loop writing every record twice.
RECURSIVE WriteSpans_Twice(_, _, _, _)
WriteSpans_Twice(st, ids, fault, i) ==
  IF i > Len(ids) THEN [st |-> st, threw |-> FALSE]
  ELSE IF fault.op \in {"format", "write"} /\ fault.i = i
    THEN [st |-> st, threw |-> TRUE]
    ELSE WriteSpans_Twice(
           [st EXCEPT !.file = Append(Append(@, RecordEntry(ids[i])), RecordEntry(ids[i]))],
           ids, fault, i + 1)

\* The for loop of export: format and write each span, from the i-th on.
RECURSIVE WriteSpans(_, _, _, _)
WriteSpans(st, ids, fault, i) ==
  IF i > Len(ids) THEN [st |-> st, threw |-> FALSE]
  ELSE IF fault.op \in {"format", "write"} /\ fault.i = i
    THEN [st |-> st, threw |-> TRUE]
    ELSE WriteSpans([st EXCEPT !.file = Append(@, RecordEntry(ids[i]))], ids, fault, i + 1)

\* The body of export's try block up to (not including) the callback.
TryBody(st, ids, fault) ==
  LET g == GetStream(st, fault) IN
  IF g.threw THEN g
  ELSE LET w == WriteSpans(g.st, ids, fault, 1) IN
    IF w.threw THEN w
    ELSE IF fault.op = "newline" THEN [st |-> w.st, threw |-> TRUE]
    ELSE [st |-> [w.st EXCEPT !.file = Append(@, NewlineEntry)], threw |-> FALSE]

\* export without the zero-span early return: an empty list runs the try block.
ExportRun_NoEarlyReturn(st, nullish, ids, fault, cb) ==
  LET t == TryBody(st, ids, fault) IN
  IF t.threw
  THEN [st |-> t.st, results |-> <<FAILURE>>, threw |-> TRUE, escaped |-> FAILURE \in cb]
  ELSE IF SUCCESS \in cb
    THEN [st |-> t.st, results |-> <<SUCCESS, FAILURE>>, threw |-> FALSE,
          escaped |-> FAILURE \in cb]
    ELSE [st |-> t.st, results |-> <<SUCCESS>>, threw |-> FALSE, escaped |-> FALSE]

\* export with this._getStream() called before the try block: its exception
\* leaves export and the callback is never invoked.
ExportRun_GetStreamOutsideTry(st, nullish, ids, fault, cb) ==
  IF nullish \/ Len(ids) = 0
  THEN [st |-> st, results |-> <<SUCCESS>>, threw |-> FALSE, escaped |-> SUCCESS \in cb]
  ELSE IF GetStream(st, fault).threw
    THEN [st |-> GetStream(st, fault).st, results |-> <<>>, threw |-> TRUE, escaped |-> TRUE]
    ELSE LET t == TryBody(st, ids, fault) IN
      IF t.threw
      THEN [st |-> t.st, results |-> <<FAILURE>>, threw |-> TRUE, escaped |-> FAILURE \in cb]
      ELSE IF SUCCESS \in cb
        THEN [st |-> t.st, results |-> <<SUCCESS, FAILURE>>, threw |-> FALSE,
              escaped |-> FAILURE \in cb]
        ELSE [st |-> t.st, results |-> <<SUCCESS>>, threw |-> FALSE, escaped |-> FALSE]

\* FileSpanExporter.export: the sink afterwards, the codes the callback was
\* invoked with (in order), whether a sink operation threw, and whether an
\* exception left export.
ExportRun(st, nullish, ids, fault, cb) ==
  IF nullish \/ Len(ids) = 0
  THEN [st |-> st, results |-> <<SUCCESS>>, threw |-> FALSE, escaped |-> SUCCESS \in cb]
  ELSE LET t == TryBody(st, ids, fault) IN
    IF t.threw
    THEN [st |-> t.st, results |-> <<FAILURE>>, threw |-> TRUE, escaped |-> FAILURE \in cb]
    ELSE IF SUCCESS \in cb
      THEN [st |-> t.st, results |-> <<SUCCESS, FAILURE>>, threw |-> FALSE,
            escaped |-> FAILURE \in cb]
      ELSE [st |-> t.st, results |-> <<SUCCESS>>, threw |-> FALSE, escaped |-> FALSE]

\* Ids of the spans of a call that come at or after the operation that threw:
\* all of them when _getStream threw, those from the i-th on when formatting
\* or writing the i-th threw, none when only the final newline threw.
Skipped(st, ids, fault) ==
  IF GetStream(st, fault).threw THEN {ids[j] : j \in 1..Len(ids)}
  ELSE IF fault.op \in {"format", "write"}
    THEN {ids[j] : j \in {m \in 1..Len(ids) : m >= fault.i}}
    ELSE {}

FreshIds(n) == [j \in 1..n |-> Len(received) + j]

Export(nullish, n, fault, cb) ==
  /\ LET ids == IF nullish THEN <<>> ELSE FreshIds(n)
         r == ExportRun(Sink, nullish, ids, fault, cb)
     IN /\ writeStream' = r.st.ws
        /\ dirExists' = r.st.dir
        /\ fileExists' = r.st.fex
        /\ streams' = r.st.streams
        /\ file' = r.st.file
        /\ received' = received \o ids
        /\ lost' = lost \cup (IF r.threw THEN Skipped(Sink, ids, fault) ELSE {})
        /\ last' = [op |-> "export", nullish |-> nullish, n |-> Len(ids),
                    results |-> r.results, threw |-> r.threw, escaped |-> r.escaped,
                    cb |-> cb]
  /\ ncalls' = ncalls + 1
  /\ UNCHANGED outsideExporter

\* FileSpanExporter.shutdown
ShutdownRun(st) ==
  IF st.ws # NoStream
  THEN [st EXCEPT !.streams[st.ws] = @ + 1, !.ws = NoStream]
  ELSE st

Shutdown ==
  /\ ncalls < MaxCalls
  /\ LET s == ShutdownRun(Sink) IN
     /\ writeStream' = s.ws
     /\ streams' = s.streams
  /\ last' = [op |-> "shutdown", nullish |-> FALSE, n |-> 0, results |-> <<>>,
              threw |-> FALSE, escaped |-> FALSE, cb |-> {}]
  /\ ncalls' = ncalls + 1
  /\ UNCHANGED <<dirExists, fileExists, file, received, lost>>
  /\ UNCHANGED outsideExporter

\* ============================================================ server side

\* ------------------------------------------------- server/validation.js
MAX_TEXT_LENGTH == 100000
MIN_TEXT_LENGTH == 1

\* Characters: a lower-case vowel, an upper-case vowel, a consonant, a space,
\* a tab (white space outside the stripped class) and a control character of
\* the stripped class [\x00-\x08\x0B\x0C\x0E-\x1F\x7F].
Chars == {"a", "E", "h", " ", "tab", "ctl"}
IsControl(c) == c = "ctl"
IsSpace(c) == c \in {" ", "tab"}

\* A text is a run of pre filler characters "x" followed by the characters of
\* core; the filler makes texts around MAX_TEXT_LENGTH representable.
CoresOfLen(n) == [1..n -> Chars]
Cores == UNION {CoresOfLen(n) : n \in 0..MaxCore}
Fillers == {0, MAX_TEXT_LENGTH - 1, MAX_TEXT_LENGTH}
Texts == [pre : Fillers, core : Cores]
EmptyText == [pre |-> 0, core |-> <<>>]
TextLength(t) == t.pre + Len(t.core)

\* Values that are not strings (undefined, a number, an object).
NotAString == [pre |-> -1, core |-> <<>>]
IsString(v) == v.pre >= 0

\* Validation outcomes' messages.
NoError == [kind |-> "none", got |-> 0]
EmptyError == [kind |-> "empty", got |-> 0]       \* 'Text is required and cannot be empty after trimming.'
TooLongError(n) == [kind |-> "tooLong", got |-> n]  \* 'Text must be at most 100,000 characters (got n).'
GenericError == [kind |-> "generic", got |-> 0]   \* 'Invalid input'

\* sanitizeText: '' for a non-string, else the string without control characters.
SanitizeText(raw) ==
  IF ~IsString(raw) THEN EmptyText
  ELSE [raw EXCEPT !.core = SelectSeq(@, LAMBDA c : ~IsControl(c))]

RECURSIVE TrimStart(_)
TrimStart(cs) ==
  IF cs = <<>> THEN <<>>
  ELSE IF IsSpace(Head(cs)) THEN TrimStart(Tail(cs)) ELSE cs

RECURSIVE TrimEnd(_)
TrimEnd(cs) ==
  IF cs = <<>> THEN <<>>
  ELSE IF IsSpace(cs[Len(cs)]) THEN TrimEnd(SubSeq(cs, 1, Len(cs) - 1)) ELSE cs

\* String.prototype.trim: with filler in front only the end can be trimmed.
Trim(t) ==
  IF t.pre > 0 THEN [t EXCEPT !.core = TrimEnd(@)]
  ELSE [t EXCEPT !.core = TrimEnd(TrimStart(@))]

\* validateAndSanitizeText
ValidateAndSanitizeText(raw) ==
  LET sanitized == Trim(SanitizeText(raw)) IN
  IF TextLength(sanitized) < MIN_TEXT_LENGTH
  THEN [ok |-> FALSE, text |-> EmptyText, error |-> EmptyError]
  ELSE IF TextLength(sanitized) > MAX_TEXT_LENGTH
    THEN [ok |-> FALSE, text |-> EmptyText, error |-> TooLongError(TextLength(sanitized))]
    ELSE [ok |-> TRUE, text |-> sanitized, error |-> NoError]

\* ----------------------------------------------------- server/index.js
\* getRawText: body.text when a string, else query.text when a string, else ''.
GetRawText(r) ==
  IF IsString(r.bodyText) THEN r.bodyText
  ELSE IF IsString(r.queryText) THEN r.queryText
  ELSE EmptyText

\* String.prototype.toLowerCase on the characters of the model.
ToLowerCase(c) == IF c = "E" THEN "e" ELSE c
Vowels == {"a", "e", "i", "o", "u"}

\* countVowels: the filler "x" is no vowel.
CountVowels(t) ==
  Cardinality({i \in 1..Len(t.core) : ToLowerCase(t.core[i]) \in Vowels})

\* The status a span has when tracer.startSpan returns it: UNSET (code 0 of
\* SpanStatusCode; OK is 1, ERROR is 2).
StartStatus == 0
STATUS_OK == 1
STATUS_ERROR == 2

\* Calls on the span, as the handler makes them.
NoVal == [n |-> -1, s |-> "", e |-> NoError]
NumVal(n) == [NoVal EXCEPT !.n = n]
StrVal(str) == [NoVal EXCEPT !.s = str]
ErrVal(e) == [NoVal EXCEPT !.e = e]
SetAttribute(key, val) == [op |-> "setAttribute", key |-> key, val |-> val]
SetStatus(code) == [op |-> "setStatus", key |-> "", val |-> NumVal(code)]
RecordException == [op |-> "recordException", key |-> "", val |-> NoVal]
End == [op |-> "end", key |-> "", val |-> NoVal]

\* Responses: the status and the JSON body's fields (-1 / NoError: absent).
NoResponse == [status |-> 0, error |-> NoError, length |-> -1, vowel_count |-> -1]
ErrorResponse(code, e) == [NoResponse EXCEPT !.status = code, !.error = e]
LengthResponse(n) == [NoResponse EXCEPT !.status = 200, !.length = n]
VowelResponse(n) == [NoResponse EXCEPT !.status = 200, !.vowel_count = n]

Methods == {"POST", "GET"}
Routes == {"/length", "/num_vowels"}
\* The traceparent header: absent (""), a well-formed token, a malformed one.
TraceParents == {"", "00-t-s-01", "garbage"}
\* Where an exception is thrown while the try block runs: nowhere, while the
\* input is read and validated, or by the call that sends the response.
HandlerFaults == {"none", "process", "send"}
QueryTexts == {NotAString, EmptyText, [pre |-> 0, core |-> <<"h">>]}

Requests ==
  [method : Methods, route : Routes, traceparent : TraceParents,
   bodyText : Texts \cup {NotAString}, queryText : QueryTexts, fault : HandlerFaults]

NoRequest ==
  [method |-> "", route |-> "", traceparent |-> "", bodyText |-> NotAString,
   queryText |-> NotAString, fault |-> "none"]
NoValidation == [ok |-> FALSE, text |-> EmptyText, error |-> NoError]

\* app.post / app.get: a request arrives and tracer.startSpan(...) is called.
Arrive(r) ==
  /\ pc = "idle"
  /\ req' = r
  /\ pc' = "try"
  /\ UNCHANGED <<spanCalls, validated, response>>
  /\ UNCHANGED outsideServer

\* The try block with a handler that throws on a malformed traceparent.
Validate_ThrowsOnMalformed ==
  /\ pc = "try"
  /\ spanCalls' = IF req.traceparent # ""
                  THEN Append(spanCalls, SetAttribute("trace.parent", StrVal(req.traceparent)))
                  ELSE spanCalls
  /\ IF req.fault = "process" \/ req.traceparent = "garbage"
     THEN /\ pc' = "catch"
          /\ UNCHANGED validated
     ELSE /\ validated' = ValidateAndSanitizeText(GetRawText(req))
          /\ pc' = IF validated'.ok THEN "valid" ELSE "invalid"
  /\ UNCHANGED <<req, response>>
  /\ UNCHANGED outsideServer

\* The try block up to the validation: the trace.parent attribute, getRawText,
\* validateAndSanitizeText.
Validate ==
  /\ pc = "try"
  /\ spanCalls' = IF req.traceparent # ""
                  THEN Append(spanCalls, SetAttribute("trace.parent", StrVal(req.traceparent)))
                  ELSE spanCalls
  /\ IF req.fault = "process"
     THEN /\ pc' = "catch"
          /\ UNCHANGED validated
     ELSE /\ validated' = ValidateAndSanitizeText(GetRawText(req))
          /\ pc' = IF validated'.ok THEN "valid" ELSE "invalid"
  /\ UNCHANGED <<req, response>>
  /\ UNCHANGED outsideServer

\* if (!validated.ok): validation.error, status ERROR (2), span.end().
RejectCalls(v) ==
  <<SetAttribute("validation.error", ErrVal(v.error)), SetStatus(2), End>>

Reject ==
  /\ pc = "invalid"
  /\ spanCalls' = spanCalls \o RejectCalls(validated)
  /\ pc' = "send400"
  /\ UNCHANGED <<req, validated, response>>
  /\ UNCHANGED outsideServer

\* The validation failure answered with the fixed body of the catch block.
Send400Response_Generic(v) == ErrorResponse(400, GenericError)

\* return res.status(400).json({ error: validated.error })
Send400Response(v) == ErrorResponse(400, v.error)

Send400 ==
  /\ pc = "send400"
  /\ IF req.fault = "send"
     THEN pc' = "catch" /\ UNCHANGED response
     ELSE pc' = "done" /\ response' = Send400Response(validated)
  /\ UNCHANGED <<req, spanCalls, validated>>
  /\ UNCHANGED outsideServer

\* The success path without its span.end().
AcceptCalls_NoEnd(r, v) ==
  IF r.route = "/length"
  THEN <<SetAttribute("text.length", NumVal(TextLength(v.text))),
         SetAttribute("http.method", StrVal(r.method)),
         SetAttribute("http.route", StrVal(r.route))>>
  ELSE <<SetAttribute("text.length", NumVal(TextLength(v.text))),
         SetAttribute("vowel.count", NumVal(CountVowels(v.text))),
         SetAttribute("http.method", StrVal(r.method)),
         SetAttribute("http.route", StrVal(r.route))>>

\* The success path: the outcome attributes, http.method, http.route, span.end().
AcceptCalls(r, v) ==
  IF r.route = "/length"
  THEN <<SetAttribute("text.length", NumVal(TextLength(v.text))),
         SetAttribute("http.method", StrVal(r.method)),
         SetAttribute("http.route", StrVal(r.route)),
         End>>
  ELSE <<SetAttribute("text.length", NumVal(TextLength(v.text))),
         SetAttribute("vowel.count", NumVal(CountVowels(v.text))),
         SetAttribute("http.method", StrVal(r.method)),
         SetAttribute("http.route", StrVal(r.route)),
         End>>

Accept ==
  /\ pc = "valid"
  /\ spanCalls' = spanCalls \o AcceptCalls(req, validated)
  /\ pc' = "send200"
  /\ UNCHANGED <<req, validated, response>>
  /\ UNCHANGED outsideServer

\* res.json({ length }) / res.json({ vowel_count })
Send200Response(r, v) ==
  IF r.route = "/length" THEN LengthResponse(TextLength(v.text))
  ELSE VowelResponse(CountVowels(v.text))

Send200 ==
  /\ pc = "send200"
  /\ IF req.fault = "send"
     THEN pc' = "catch" /\ UNCHANGED response
     ELSE pc' = "done" /\ response' = Send200Response(req, validated)
  /\ UNCHANGED <<req, spanCalls, validated>>
  /\ UNCHANGED outsideServer

\* The catch block without recordException.
CatchCalls_NoRecord == <<SetStatus(2), End>>

\* catch (err): recordException, status ERROR (2), span.end().
CatchCalls == <<RecordException, SetStatus(2), End>>

Catch ==
  /\ pc = "catch"
  /\ spanCalls' = spanCalls \o CatchCalls
  /\ pc' = "sendGeneric"
  /\ UNCHANGED <<req, validated, response>>
  /\ UNCHANGED outsideServer

\* res.status(400).json({ error: 'Invalid input' })
CatchResponse == ErrorResponse(400, GenericError)

SendGeneric ==
  /\ pc = "sendGeneric"
  /\ response' = CatchResponse
  /\ pc' = "done"
  /\ UNCHANGED <<req, spanCalls, validated>>
  /\ UNCHANGED outsideServer

\* The response is out and the handler has returned: the server is ready for
\* the next request.
Finish ==
  /\ pc = "done"
  /\ pc' = "idle"
  /\ req' = NoRequest
  /\ spanCalls' = <<>>
  /\ validated' = NoValidation
  /\ response' = NoResponse
  /\ UNCHANGED outsideServer

Request == pc = "idle" /\ \E r \in Requests : Arrive(r)

\* ------------------------------------------------- formatReadableSpan
\* What the record shows for a missing value.
Dash == "--"

\* HrTime values [seconds, nanoseconds]; <<>>: none.
NoTime == <<>>
HrTimes == {NoTime, <<1, 2500000>>}

\* hrTimeToMicroseconds (-1: null)
HrTimeToMicroseconds(hrTime) ==
  IF Len(hrTime) < 2 THEN -1
  ELSE hrTime[1] * 1000000 + hrTime[2] \div 1000

\* The duration in milliseconds with two decimals (toFixed(2)), as text.
DurationMs(duration) ==
  LET h == (duration[1] * 1000000000 + duration[2] + 5000) \div 10000
      f == h % 100 IN
  ToString(h \div 100) \o "." \o (IF f < 10 THEN "0" ELSE "") \o ToString(f)

NoKind == -1
SPAN_KIND_NAMES ==
  [k \in 0..4 |-> <<"INTERNAL", "SERVER", "CLIENT", "PRODUCER", "CONSUMER">>[k + 1]]
KindLabel(kind) ==
  IF kind = NoKind THEN Dash
  ELSE IF kind \in DOMAIN SPAN_KIND_NAMES THEN SPAN_KIND_NAMES[kind]
  ELSE "kind_" \o ToString(kind)

\* span.status: absent, or a code (NoCode: absent) and a message ("": absent).
NoCode == -1
NoStatus == [code |-> NoCode, message |-> ""]
Statuses == [code : {NoCode, 0, 1, 2, 3}, message : {"", "boom"}]

\* const statusStr = statusCode === 0 ? 'OK' : statusCode === 2 ? 'ERROR' : 'UNSET'
StatusStr(statusCode) ==
  IF statusCode = 0 THEN "OK" ELSE IF statusCode = 2 THEN "ERROR" ELSE "UNSET"

\* The status line: the code and the message. statusStr is computed and is
\* not part of the line.
StatusLine(status) ==
  LET statusCode == status.code
      statusStr == StatusStr(statusCode)
      statusMsg == status.message IN
  <<"status: { code: ", IF statusCode # NoCode THEN ToString(statusCode) ELSE Dash,
    ", message: ", IF statusMsg # "" THEN "'" \o statusMsg \o "'" ELSE "undefined", "}">>

\* One line per attribute: a string in quotes, anything else by String(v).
AttributeLine(a) ==
  <<"  ", a.k, ": ", IF a.v.n # -1 THEN ToString(a.v.n) ELSE "'" \o a.v.s \o "'", ",">>
EventLine(ev) ==
  <<"  { name: '", ev.name, "', attributes: ", ev.message, " },">>

SpanAttributes ==
  {<<>>, <<[k |-> "text.length", v |-> NumVal(5)], [k |-> "http.method", v |-> StrVal("GET")]>>}
SpanEvents == {<<>>, <<[name |-> "exception", message |-> "boom"]>>}
NoCtx == [traceId |-> "", spanId |-> ""]

\* The spans formatReadableSpan is applied to.
ReadableSpans ==
  [name : {"", "GET /length"},
   ctx : {NoCtx, [traceId |-> "t1", spanId |-> "s1"]},
   parentSpanId : {"", "p1"},
   kind : {NoKind, 1, 7},
   startTime : HrTimes,
   duration : HrTimes,
   status : Statuses,
   attributes : SpanAttributes,
   events : SpanEvents]

NoSpan == [name |-> "", ctx |-> NoCtx, parentSpanId |-> "", kind |-> NoKind,
           startTime |-> NoTime, duration |-> NoTime, status |-> NoStatus,
           attributes |-> <<>>, events |-> <<>>]

\* formatReadableSpan: the lines of the record, each a sequence of pieces.
FormatReadableSpan(span) ==
  LET timestampUs == HrTimeToMicroseconds(span.startTime)
      durationUs == HrTimeToMicroseconds(span.duration) IN
  <<<<"---">>,
    <<"name: ", IF span.name # "" THEN span.name ELSE "unknown">>,
    <<"traceId: ", IF span.ctx.traceId # "" THEN span.ctx.traceId ELSE Dash>>,
    <<"parentId: ", IF span.parentSpanId # "" THEN span.parentSpanId ELSE Dash>>,
    <<"id: ", IF span.ctx.spanId # "" THEN span.ctx.spanId ELSE Dash>>,
    <<"kind: ", IF span.kind # NoKind THEN ToString(span.kind) ELSE Dash,
      " (", KindLabel(span.kind), ")">>,
    <<"timestamp: ", IF timestampUs # -1 THEN ToString(timestampUs) ELSE Dash>>,
    <<"duration: ", IF durationUs # -1 THEN ToString(durationUs) ELSE Dash,
      " (", IF span.duration # NoTime THEN DurationMs(span.duration) ELSE Dash, " ms)">>,
    StatusLine(span.status)>>
  \o (IF span.attributes # <<>>
      THEN <<<<"attributes: {">>>>
           \o [i \in 1..Len(span.attributes) |-> AttributeLine(span.attributes[i])]
           \o <<<<"}">>>>
      ELSE <<>>)
  \o (IF span.events # <<>>
      THEN <<<<"events: [">>>>
           \o [i \in 1..Len(span.events) |-> EventLine(span.events[i])]
           \o <<<<"]">>>>
      ELSE <<>>)
  \o <<<<"">>>>

\* formatReadableSpan is applied to the span.
Format ==
  /\ fmtRecord = <<>>
  /\ fmtRecord' = FormatReadableSpan(fmtSpan)
  /\ UNCHANGED fmtSpan
  /\ UNCHANGED outsideFormat

\* --------------------------------------------- SimpleTracer (browser)
\* A field that is undefined.
Undefined == -1

\* Who holds a span object: the submit handler (parentSpan, lengthSpan,
\* vowelSpan), the instrumented fetch (one span per call), a caller of
\* window.otelTracer.
Holders ==
  {"parentSpan", "lengthSpan", "vowelSpan", "fetch:/length", "fetch:/num_vowels",
   "fetch:/other", "caller"}

NoAttributes == [k \in {} |-> NoVal]
NoClientSpan ==
  [name |-> "", startTime |-> Undefined, attributes |-> NoAttributes,
   status |-> [code |-> Undefined], events |-> <<>>,
   endTime |-> Undefined, duration |-> Undefined, logged |-> 0]

\* An exception: its name and message.
TypeError(message) == [name |-> "TypeError", message |-> message]

\* tracer.startSpan(name) at time t: status OK, no attributes, no events,
\* no endTime. logged counts the console.log calls made by end().
StartSpan(name, t) ==
  [name |-> name, startTime |-> t, attributes |-> NoAttributes,
   status |-> [code |-> STATUS_OK], events |-> <<>>,
   endTime |-> Undefined, duration |-> Undefined, logged |-> 0]

\* span.setAttribute(key, value)
SpanSetAttribute(span, key, value) ==
  [span EXCEPT !.attributes = (key :> value) @@ @]

\* span.setStatus(status)
SpanSetStatus(span, code) ==
  [span EXCEPT !.status = [code |-> code]]

\* span.recordException(exception) at time t
SpanRecordException(span, exception, t) ==
  [span EXCEPT !.events = Append(@, [name |-> "exception", time |-> t,
                                      type |-> exception.name,
                                      message |-> exception.message]),
               !.status = [code |-> STATUS_ERROR]]

\* span.end() at time t
SpanEnd(span, t) ==
  [span EXCEPT !.endTime = t, !.duration = t - span.startTime, !.logged = @ + 1]

\* Time passes.
Tick ==
  /\ now < MaxTime
  /\ now' = now + 1
  /\ UNCHANGED spans
  /\ UNCHANGED outsideTracer

\* A caller of window.otelTracer starts a span and calls its methods, in any
\* order and any number of times.
CallerKeys == {"k1", "k2"}
CallerValues == {NumVal(1), StrVal("v")}
CallerStatuses == {STATUS_OK, STATUS_ERROR}

CallerStartSpan ==
  /\ spans["caller"] = NoClientSpan
  /\ spans' = [spans EXCEPT !["caller"] = StartSpan("manual", now)]
  /\ UNCHANGED now
  /\ UNCHANGED outsideTracer

CallerSetAttribute ==
  /\ spans["caller"] # NoClientSpan
  /\ \E key \in CallerKeys, value \in CallerValues :
       spans' = [spans EXCEPT !["caller"] = SpanSetAttribute(@, key, value)]
  /\ UNCHANGED now
  /\ UNCHANGED outsideTracer

CallerSetStatus ==
  /\ spans["caller"] # NoClientSpan
  /\ \E code \in CallerStatuses :
       spans' = [spans EXCEPT !["caller"] = SpanSetStatus(@, code)]
  /\ UNCHANGED now
  /\ UNCHANGED outsideTracer

CallerRecordException ==
  /\ spans["caller"] # NoClientSpan
  /\ Len(spans["caller"].events) < MaxEvents
  /\ spans' = [spans EXCEPT !["caller"] = SpanRecordException(@, TypeError("boom"), now)]
  /\ UNCHANGED now
  /\ UNCHANGED outsideTracer

CallerEnd ==
  /\ spans["caller"] # NoClientSpan
  /\ spans["caller"].logged < MaxEnds
  /\ spans' = [spans EXCEPT !["caller"] = SpanEnd(@, now)]
  /\ UNCHANGED now
  /\ UNCHANGED outsideTracer

\* ------------------------------------------ trace context (browser)
HexDigits ==
  <<"0", "1", "2", "3", "4", "5", "6", "7", "8", "9", "a", "b", "c", "d", "e", "f">>

\* len hexadecimal digits drawn from Math.random, as the characters of the
\* string. seed stands for the state of the random source: two draws differ
\* in their seed and so in their digits (no collision is modelled).
RandomHex(len, seed) ==
  [i \in 1..len |-> HexDigits[((seed * 7 + i * 3) % 16) + 1]]

GenerateTraceId(seed) == RandomHex(32, seed)
GenerateSpanId(seed) == RandomHex(16, seed)

\* getCurrentTraceId: the stored item or, when there is none, a new id.
GetCurrentTraceId(stored, seed) ==
  IF stored # <<>> THEN stored ELSE GenerateTraceId(seed)

\* The token with its two identifiers in the other order.
Traceparent_SpanIdFirst(traceId, spanId) ==
  <<"0", "0", "-">> \o spanId \o <<"-">> \o traceId \o <<"-", "0", "1">>

\* `00-${traceId}-${spanId}-01`, as the characters of the string.
Traceparent(traceId, spanId) ==
  <<"0", "0", "-">> \o traceId \o <<"-">> \o spanId \o <<"-", "0", "1">>

\* The propagator's decode, as the specification describes it (no decoder is
\* part of the sources: the server keeps the header as it came): the token
\* version-traceId-spanId-flags, fields of 2, 32, 16 and 2 hexadecimal digits
\* joined by "-", gives its trace context; any other token gives null.
HexDigitSet == {HexDigits[d] : d \in 1..16}
IsHex(cs) == \A i \in 1..Len(cs) : cs[i] \in HexDigitSet
NullContext == [traceId |-> <<>>, spanId |-> <<>>, sampled |-> FALSE]
Decode(token) ==
  IF /\ Len(token) = 55
     /\ token[3] = "-" /\ token[36] = "-" /\ token[53] = "-"
     /\ IsHex(SubSeq(token, 1, 2)) /\ IsHex(SubSeq(token, 4, 35))
     /\ IsHex(SubSeq(token, 37, 52)) /\ IsHex(SubSeq(token, 54, 55))
  THEN [traceId |-> SubSeq(token, 4, 35), spanId |-> SubSeq(token, 37, 52),
        sampled |-> SubSeq(token, 54, 55) = <<"0", "1">>]
  ELSE NullContext

\* The characters of a string of the model put together.
RECURSIVE Join(_)
Join(cs) == IF cs = <<>> THEN "" ELSE Head(cs) \o Join(Tail(cs))

\* ------------------------------------------ window.fetch (instrumented)
\* Header names are case-insensitive: Headers keeps them in lower case.
LowerName(n) ==
  IF n = "Traceparent" THEN "traceparent"
  ELSE IF n = "Content-Type" THEN "content-type" ELSE n

NoHeaders == [n \in {} |-> ""]
\* new Headers(init)
Headers(init) ==
  [n \in {LowerName(k) : k \in DOMAIN init} |->
     init[CHOOSE k \in DOMAIN init : LowerName(k) = n]]
\* headers.set that leaves a header the caller gave as it is.
HeadersSet_KeepExisting(headers, name, value) == headers @@ (LowerName(name) :> value)

\* headers.set(name, value)
HeadersSet(headers, name, value) == (LowerName(name) :> value) @@ headers

Garbage == <<"g", "a", "r", "b", "a", "g", "e">>

\* The options argument of fetch: not given, null, or an object with a method
\* ("": none), headers (none, a name-value object, or one the Headers
\* constructor rejects) and a body.
NoOptions ==
  [given |-> "undefined", method |-> "", headers |-> NoHeaders, badHeaders |-> FALSE,
   body |-> EmptyText]
FetchOptions ==
  {NoOptions,
   [NoOptions EXCEPT !.given = "null"],
   [NoOptions EXCEPT !.given = "object"],
   [NoOptions EXCEPT !.given = "object", !.method = "POST",
                     !.headers = ("Content-Type" :> "application/json")],
   [NoOptions EXCEPT !.given = "object", !.headers = ("traceparent" :> Garbage)],
   [NoOptions EXCEPT !.given = "object", !.headers = ("Traceparent" :> Garbage)],
   [NoOptions EXCEPT !.given = "object", !.badHeaders = TRUE]}

NoIdentifier == <<>>
NoOutbound == [url |-> "", method |-> "", headers |-> NoHeaders, body |-> EmptyText]

\* window.fetch(url, options) up to the call of originalFetch, at time t with
\* sessionStorage item stored and r ids drawn so far: whether it threw, the
\* span it started, the item and the draws afterwards, its traceId and spanId,
\* and the request handed to originalFetch.
InstrumentedFetch(url, options, stored, r, t) ==
  IF options.given = "null"
  THEN [threw |-> TRUE, span |-> NoClientSpan, stored |-> stored, rand |-> r,
        traceId |-> NoIdentifier, spanId |-> NoIdentifier, outbound |-> NoOutbound]
  ELSE
    LET method == IF options.method # "" THEN options.method ELSE "GET"
        span0 == StartSpan("fetch " \o method \o " " \o url, t)
        current == GetCurrentTraceId(stored, r + 1)
        r1 == IF stored # <<>> THEN r ELSE r + 1
        traceId == IF current = <<>> THEN GenerateTraceId(r1 + 1) ELSE current
        stored1 == IF current = <<>> THEN traceId ELSE stored
        r2 == IF current = <<>> THEN r1 + 1 ELSE r1
        spanId == GenerateSpanId(r2 + 1)
        r3 == r2 + 1
    IN
    IF options.badHeaders
    THEN [threw |-> TRUE, span |-> span0, stored |-> stored1, rand |-> r3,
          traceId |-> traceId, spanId |-> spanId, outbound |-> NoOutbound]
    ELSE
      LET headers == HeadersSet(Headers(options.headers), "traceparent",
                                Traceparent(traceId, spanId))
          span1 == SpanSetAttribute(span0, "http.method", StrVal(method))
          span2 == SpanSetAttribute(span1, "http.url", StrVal(url))
          span3 == SpanSetAttribute(span2, "trace_id", StrVal(Join(traceId)))
          span4 == SpanSetAttribute(span3, "span_id", StrVal(Join(spanId)))
      IN [threw |-> FALSE, span |-> span4, stored |-> stored1, rand |-> r3,
          traceId |-> traceId, spanId |-> spanId,
          outbound |-> [url |-> url, method |-> method, headers |-> headers,
                        body |-> options.body]]

\* What originalFetch's promise settles with: a response (ok or not) or a
\* rejection with a network error.
NetworkError == TypeError("Failed to fetch")
ResponseValues == {0, 5}
OkResponse(v) ==
  [kind |-> "response", ok |-> TRUE, status |-> 200, statusText |-> "OK",
   value |-> v, error |-> NoError]
ErrorStatusResponse(e) ==
  [kind |-> "response", ok |-> FALSE, status |-> 400, statusText |-> "Bad Request",
   value |-> -1, error |-> e]
Rejection ==
  [kind |-> "reject", ok |-> FALSE, status |-> 0, statusText |-> "",
   value |-> -1, error |-> NoError]
Outcomes ==
  {OkResponse(v) : v \in ResponseValues} \cup {ErrorStatusResponse(EmptyError), Rejection}

\* The .then callback of the instrumented fetch.
FetchThen(span, res, t) ==
  LET s1 == SpanSetAttribute(span, "http.status_code", NumVal(res.status))
      s2 == SpanSetAttribute(s1, "http.status_text", StrVal(res.statusText))
      s3 == SpanSetStatus(s2, IF res.ok THEN STATUS_OK ELSE STATUS_ERROR)
  IN SpanEnd(s3, t)

\* The .catch callback of the instrumented fetch (it rethrows).
FetchCatch(span, error, t) ==
  SpanEnd(SpanSetStatus(SpanRecordException(span, error, t), STATUS_ERROR), t)

Urls == {"/length", "/num_vowels", "/other"}
HandlerUrls == {"/length", "/num_vowels"}
FetchHolder(url) == "fetch:" \o url
ChildHolder(url) == IF url = "/length" THEN "lengthSpan" ELSE "vowelSpan"
OtherUrl(url) == IF url = "/length" THEN "/num_vowels" ELSE "/length"

\* A call: none, pending, fulfilled, rejected, or threw (window.fetch threw
\* before originalFetch was called).
NoFetch ==
  [state |-> "none", options |-> NoOptions, traceId |-> NoIdentifier,
   spanId |-> NoIdentifier, outbound |-> NoOutbound, result |-> Rejection]
CallOf(f, options) ==
  [state |-> IF f.threw THEN "threw" ELSE "pending", options |-> options,
   traceId |-> f.traceId, spanId |-> f.spanId, outbound |-> f.outbound,
   result |-> Rejection]

\* ------------------------------------------------- src/app.js
\* sanitizeText of the client leaving the control characters in.
ClientSanitizeText_KeepControl(str) ==
  IF ~IsString(str) THEN EmptyText ELSE str

\* sanitizeText of the client
ClientSanitizeText(str) ==
  IF ~IsString(str) THEN EmptyText
  ELSE [str EXCEPT !.core = SelectSeq(@, LAMBDA c : ~IsControl(c))]

\* Messages shown on the page.
Message(str) == [kind |-> str, got |-> 0]
NoMessage == Message("")
EnterSomeText == Message("Please enter some text.")
TextTooLong(n) == [kind |-> "Text must be at most (you entered)", got |-> n]
RequestFailed == Message("Request failed")
SomethingWentWrong == Message("Something went wrong. Please try again.")

\* MAX_TEXT_LENGTH of src/app.js
CLIENT_MAX_TEXT_LENGTH == 100000

\* validateInput
ValidateInput(raw) ==
  LET sanitized == Trim(ClientSanitizeText(raw)) IN
  IF TextLength(sanitized) = 0
  THEN [ok |-> FALSE, text |-> EmptyText, error |-> EnterSomeText]
  ELSE IF TextLength(sanitized) > CLIENT_MAX_TEXT_LENGTH
    THEN [ok |-> FALSE, text |-> EmptyText, error |-> TextTooLong(TextLength(sanitized))]
    ELSE [ok |-> TRUE, text |-> sanitized, error |-> NoMessage]

MAX_HISTORY == 10

\* addToHistory
AddToHistory(h, text, length, vowel_count) ==
  LET h1 == <<[text |-> text, length |-> length, vowel_count |-> vowel_count]>> \o h IN
  IF Len(h1) > MAX_HISTORY THEN SubSeq(h1, 1, Len(h1) - 1) ELSE h1

\* The page as loaded: button enabled, error and results areas hidden.
NoValue == -1
InitialPage ==
  [disabled |-> FALSE,
   errorHidden |-> TRUE, errorMessage |-> NoMessage,
   resultsHidden |-> TRUE,
   lengthValueHidden |-> FALSE, lengthValue |-> NoValue,
   lengthErrorHidden |-> TRUE, lengthError |-> NoMessage,
   vowelValueHidden |-> FALSE, vowelValue |-> NoValue,
   vowelErrorHidden |-> TRUE, vowelError |-> NoMessage]

\* showError
ShowError(page, msg) ==
  [page EXCEPT !.errorHidden = FALSE, !.errorMessage = msg, !.resultsHidden = TRUE]

\* showResults
ShowResults(page, data) ==
  LET p0 == [page EXCEPT !.errorHidden = TRUE, !.resultsHidden = FALSE]
      p1 == IF data.lengthError # NoMessage
            THEN [p0 EXCEPT !.lengthValueHidden = TRUE, !.lengthErrorHidden = FALSE,
                            !.lengthError = data.lengthError]
            ELSE [p0 EXCEPT !.lengthErrorHidden = TRUE, !.lengthValueHidden = FALSE,
                            !.lengthValue = data.length]
  IN IF data.vowelError # NoMessage
     THEN [p1 EXCEPT !.vowelValueHidden = TRUE, !.vowelErrorHidden = FALSE,
                     !.vowelError = data.vowelError]
     ELSE [p1 EXCEPT !.vowelErrorHidden = TRUE, !.vowelValueHidden = FALSE,
                     !.vowelValue = data.vowel_count]

\* What the user may have typed.
ClientTexts ==
  {EmptyText, [pre |-> 0, core |-> <<"ctl">>], [pre |-> 0, core |-> <<"a", "E">>],
   [pre |-> MAX_TEXT_LENGTH, core |-> <<"h">>]}

NoSubmission == [ok |-> FALSE, text |-> EmptyText]

\* The options the submit handler passes to fetch.
HandlerOptions(text) ==
  [given |-> "object", method |-> "POST",
   headers |-> ("Content-Type" :> "application/json"), badHeaders |-> FALSE,
   body |-> text]

\* The submit handler up to its await: validateInput; on a valid text the
\* button is disabled, the areas hidden, the three spans started and the two
\* calls made.
SubmitRun(raw) ==
  LET v == ValidateInput(raw) IN
  IF ~v.ok
  THEN /\ ui' = ShowError(ui, v.error)
       /\ submitted' = [ok |-> FALSE, text |-> raw]
       /\ cpc' = "done"
       /\ UNCHANGED <<storage, rand, calls, spans>>
  ELSE LET f1 == InstrumentedFetch("/length", HandlerOptions(v.text), storage, rand, now)
           f2 == InstrumentedFetch("/num_vowels", HandlerOptions(v.text), f1.stored, f1.rand, now)
       IN /\ ui' = [ui EXCEPT !.disabled = TRUE, !.errorHidden = TRUE, !.resultsHidden = TRUE]
          /\ submitted' = [ok |-> TRUE, text |-> v.text]
          /\ spans' = [spans EXCEPT
               !["parentSpan"] = SpanSetAttribute(StartSpan("form_submit", now),
                                                  "user_input_length", NumVal(TextLength(v.text))),
               !["lengthSpan"] = StartSpan("fetch_length_api", now),
               !["vowelSpan"] = StartSpan("fetch_vowels_api", now),
               !["fetch:/length"] = f1.span,
               !["fetch:/num_vowels"] = f2.span]
          /\ calls' = [calls EXCEPT !["/length"] = CallOf(f1, HandlerOptions(v.text)),
                                    !["/num_vowels"] = CallOf(f2, HandlerOptions(v.text))]
          /\ storage' = f2.stored
          /\ rand' = f2.rand
          /\ cpc' = "awaitAll"

\* The form is submitted. (A submission is taken up when the calls of the one
\* before have settled.)
Submit ==
  /\ cpc = "idle"
  /\ submits < MaxSubmits
  /\ \A u \in Urls : calls[u].state # "pending"
  /\ \E raw \in ClientTexts : SubmitRun(raw)
  /\ submits' = submits + 1
  /\ UNCHANGED <<now, sessionHistory>>
  /\ UNCHANGED outsideBrowser

\* Some other caller of window.fetch, with any options.
OtherFetch ==
  /\ cpc = "idle"
  /\ calls["/other"].state = "none"
  /\ \E options \in FetchOptions :
       LET f == InstrumentedFetch("/other", options, storage, rand, now) IN
       /\ calls' = [calls EXCEPT !["/other"] = CallOf(f, options)]
       /\ spans' = [spans EXCEPT !["fetch:/other"] = f.span]
       /\ storage' = f.stored
       /\ rand' = f.rand
  /\ UNCHANGED <<now, cpc, submitted, ui, sessionHistory, submits>>
  /\ UNCHANGED outsideBrowser

\* The catch and finally blocks of the submit handler.
HandlerCatch(page, err) ==
  [ShowError(page, IF err.message # "" THEN Message(err.message) ELSE SomethingWentWrong)
     EXCEPT !.disabled = FALSE]
ParentCatch(parentSpan, err, t) ==
  SpanEnd(SpanSetStatus(SpanRecordException(parentSpan, err, t), STATUS_ERROR), t)

\* A call settles with outcome o: the instrumented fetch's then / catch, the
\* handler's .finally on the call and, when the handler is waiting in
\* Promise.all, what Promise.all does: it rejects with the first rejection
\* (the handler's catch and finally blocks run), it is fulfilled when both
\* calls are.
SettleRun(u, o) ==
  LET fetchSpan == IF o.kind = "response" THEN FetchThen(spans[FetchHolder(u)], o, now)
                   ELSE FetchCatch(spans[FetchHolder(u)], NetworkError, now)
      settled == [calls EXCEPT ![u].state = IF o.kind = "response" THEN "fulfilled" ELSE "rejected",
                               ![u].result = o]
  IN
  /\ calls' = settled
  /\ IF u \notin HandlerUrls
     THEN /\ spans' = [spans EXCEPT ![FetchHolder(u)] = fetchSpan]
          /\ UNCHANGED <<cpc, ui>>
     ELSE IF cpc = "awaitAll" /\ o.kind = "reject"
       THEN /\ spans' = [spans EXCEPT ![FetchHolder(u)] = fetchSpan,
                                      ![ChildHolder(u)] = SpanEnd(@, now),
                                      !["parentSpan"] = ParentCatch(@, NetworkError, now)]
            /\ ui' = HandlerCatch(ui, NetworkError)
            /\ cpc' = "done"
       ELSE /\ spans' = [spans EXCEPT ![FetchHolder(u)] = fetchSpan,
                                      ![ChildHolder(u)] = SpanEnd(@, now)]
            /\ cpc' = IF cpc = "awaitAll" /\ settled[OtherUrl(u)].state = "fulfilled"
                      THEN "afterAll" ELSE cpc
            /\ UNCHANGED ui

Settle ==
  \E u \in Urls :
    /\ calls[u].state = "pending"
    /\ \E o \in Outcomes : SettleRun(u, o)
    /\ UNCHANGED <<now, storage, rand, submitted, sessionHistory, submits>>
    /\ UNCHANGED outsideBrowser

\* What the handler hands to showResults.
ResultsOf(lengthRes, vowelRes) ==
  LET lengthOk == lengthRes.ok
      vowelOk == vowelRes.ok
      NullData == [value |-> NoValue, error |-> NoError]
      lengthData == IF lengthOk THEN [value |-> lengthRes.value, error |-> lengthRes.error]
                    ELSE NullData
      vowelData == IF vowelOk THEN [value |-> vowelRes.value, error |-> vowelRes.error]
                   ELSE NullData
  IN [length |-> IF lengthOk THEN lengthData.value ELSE NoValue,
      vowel_count |-> IF vowelOk THEN vowelData.value ELSE NoValue,
      lengthError |-> IF lengthOk THEN NoMessage
                      ELSE IF lengthData.error # NoError THEN lengthData.error ELSE RequestFailed,
      vowelError |-> IF vowelOk THEN NoMessage
                     ELSE IF vowelData.error # NoError THEN vowelData.error ELSE RequestFailed]

\* The handler after Promise.all is fulfilled: the bodies are read, the
\* results shown and kept, the parent span set and ended, the button enabled.
Aggregate ==
  /\ cpc = "afterAll"
  /\ LET lengthRes == calls["/length"].result
         vowelRes == calls["/num_vowels"].result
         bothOk == lengthRes.ok /\ vowelRes.ok
         p1 == SpanSetAttribute(spans["parentSpan"], "result_length",
                 IF lengthRes.ok THEN NumVal(lengthRes.value) ELSE StrVal("error"))
         p2 == SpanSetAttribute(p1, "result_vowels",
                 IF vowelRes.ok THEN NumVal(vowelRes.value) ELSE StrVal("error"))
         p3 == SpanSetStatus(p2, IF bothOk THEN STATUS_OK ELSE STATUS_ERROR)
     IN /\ ui' = [ShowResults(ui, ResultsOf(lengthRes, vowelRes)) EXCEPT !.disabled = FALSE]
        /\ sessionHistory' =
             IF bothOk
             THEN AddToHistory(sessionHistory, submitted.text, lengthRes.value, vowelRes.value)
             ELSE sessionHistory
        /\ spans' = [spans EXCEPT !["parentSpan"] = SpanEnd(p3, now)]
  /\ cpc' = "done"
  /\ UNCHANGED <<now, storage, rand, calls, submitted, submits>>
  /\ UNCHANGED outsideBrowser

\* The handler has returned and its calls have settled: the form takes the
\* next submission. The page stays as it is.
Return ==
  /\ cpc = "done"
  /\ \A u \in HandlerUrls : calls[u].state # "pending"
  /\ cpc' = "idle"
  /\ submitted' = NoSubmission
  /\ calls' = [u \in Urls |-> IF u \in HandlerUrls THEN NoFetch ELSE calls[u]]
  /\ spans' = [h \in Holders |->
                 IF h \in {"fetch:/other", "caller"} THEN spans[h] ELSE NoClientSpan]
  /\ UNCHANGED <<now, storage, rand, ui, sessionHistory, submits>>
  /\ UNCHANGED outsideBrowser

\* ------------------------------------ the two validations side by side
NoClientValidation == [ok |-> FALSE, text |-> EmptyText, error |-> NoMessage]

\* The raw input goes through validateInput and validateAndSanitizeText;
\* the text validateInput accepted (the one the client sends) goes through
\* validateAndSanitizeText.
ValidateBoth ==
  /\ valClient = NoClientValidation /\ valServer = NoValidation
  /\ valClient' = ValidateInput(valRaw)
  /\ valServer' = ValidateAndSanitizeText(valRaw)
  /\ valResent' = IF ValidateInput(valRaw).ok
                  THEN ValidateAndSanitizeText(ValidateInput(valRaw).text)
                  ELSE NoValidation
  /\ UNCHANGED valRaw
  /\ UNCHANGED outsideValidation

\* ========================================================== specifications

\* new FileSpanExporter(filePath): no stream; the directory and an earlier
\* run's file may or may not exist. No request is in a handler.
ExporterInit ==
  /\ writeStream = NoStream
  /\ dirExists \in BOOLEAN
  /\ fileExists \in BOOLEAN
  /\ streams = <<>>
  /\ file = <<>>
  /\ received = <<>>
  /\ lost = {}
  /\ ncalls = 0
  /\ last = NoCall
  /\ pc = "idle"
  /\ req = NoRequest
  /\ spanCalls = <<>>
  /\ validated = NoValidation
  /\ response = NoResponse
  /\ fmtSpan = NoSpan
  /\ fmtRecord = <<>>
  /\ now = 0
  /\ spans = [h \in Holders |-> NoClientSpan]
  /\ storage = <<>>
  /\ rand = 0
  /\ calls = [u \in Urls |-> NoFetch]
  /\ cpc = "idle"
  /\ submitted = NoSubmission
  /\ ui = InitialPage
  /\ sessionHistory = <<>>
  /\ submits = 0
  /\ valRaw = NotAString
  /\ valClient = NoClientValidation
  /\ valServer = NoValidation
  /\ valResent = NoValidation

ExportCall ==
  /\ ncalls < MaxCalls
  /\ \E nullish \in BOOLEAN, n \in 0..MaxBatch, fault \in Faults, cb \in Callbacks :
       /\ nullish => n = 0
       /\ Export(nullish, n, fault, cb)

\* The exporter alone: no request is in a handler.
ExporterNext == ExportCall \/ Shutdown

ExporterSpec == ExporterInit /\ [][ExporterNext]_vars

\* The handlers alone: the exporter stays as constructed.
ServerInit ==
  /\ pc = "idle"
  /\ req = NoRequest
  /\ spanCalls = <<>>
  /\ validated = NoValidation
  /\ response = NoResponse
  /\ writeStream = NoStream
  /\ dirExists = FALSE
  /\ fileExists = FALSE
  /\ streams = <<>>
  /\ file = <<>>
  /\ received = <<>>
  /\ lost = {}
  /\ ncalls = 0
  /\ last = NoCall
  /\ fmtSpan = NoSpan
  /\ fmtRecord = <<>>
  /\ now = 0
  /\ spans = [h \in Holders |-> NoClientSpan]
  /\ storage = <<>>
  /\ rand = 0
  /\ calls = [u \in Urls |-> NoFetch]
  /\ cpc = "idle"
  /\ submitted = NoSubmission
  /\ ui = InitialPage
  /\ sessionHistory = <<>>
  /\ submits = 0
  /\ valRaw = NotAString
  /\ valClient = NoClientValidation
  /\ valServer = NoValidation
  /\ valResent = NoValidation

ServerNext ==
  \/ Request
  \/ Validate
  \/ Reject
  \/ Send400
  \/ Accept
  \/ Send200
  \/ Catch
  \/ SendGeneric
  \/ Finish

ServerSpec == ServerInit /\ [][ServerNext]_vars

\* formatReadableSpan alone, applied to any of the spans.
FormatInit ==
  /\ fmtSpan \in ReadableSpans
  /\ fmtRecord = <<>>
  /\ writeStream = NoStream
  /\ dirExists = FALSE
  /\ fileExists = FALSE
  /\ streams = <<>>
  /\ file = <<>>
  /\ received = <<>>
  /\ lost = {}
  /\ ncalls = 0
  /\ last = NoCall
  /\ pc = "idle"
  /\ req = NoRequest
  /\ spanCalls = <<>>
  /\ validated = NoValidation
  /\ response = NoResponse
  /\ now = 0
  /\ spans = [h \in Holders |-> NoClientSpan]
  /\ storage = <<>>
  /\ rand = 0
  /\ calls = [u \in Urls |-> NoFetch]
  /\ cpc = "idle"
  /\ submitted = NoSubmission
  /\ ui = InitialPage
  /\ sessionHistory = <<>>
  /\ submits = 0
  /\ valRaw = NotAString
  /\ valClient = NoClientValidation
  /\ valServer = NoValidation
  /\ valResent = NoValidation

FormatNext == Format

FormatSpec == FormatInit /\ [][FormatNext]_vars

\* One span of the SimpleTracer in the hands of a caller.
TracerInit ==
  /\ now = 0
  /\ spans = [h \in Holders |-> NoClientSpan]
  /\ fmtSpan = NoSpan
  /\ fmtRecord = <<>>
  /\ writeStream = NoStream
  /\ dirExists = FALSE
  /\ fileExists = FALSE
  /\ streams = <<>>
  /\ file = <<>>
  /\ received = <<>>
  /\ lost = {}
  /\ ncalls = 0
  /\ last = NoCall
  /\ pc = "idle"
  /\ req = NoRequest
  /\ spanCalls = <<>>
  /\ validated = NoValidation
  /\ response = NoResponse
  /\ storage = <<>>
  /\ rand = 0
  /\ calls = [u \in Urls |-> NoFetch]
  /\ cpc = "idle"
  /\ submitted = NoSubmission
  /\ ui = InitialPage
  /\ sessionHistory = <<>>
  /\ submits = 0
  /\ valRaw = NotAString
  /\ valClient = NoClientValidation
  /\ valServer = NoValidation
  /\ valResent = NoValidation

TracerNext ==
  \/ Tick
  \/ CallerStartSpan
  \/ CallerSetAttribute
  \/ CallerSetStatus
  \/ CallerRecordException
  \/ CallerEnd

TracerSpec == TracerInit /\ [][TracerNext]_vars

\* The page: the submit handler and the instrumented fetch.
ClientInit ==
  /\ storage = <<>>
  /\ rand = 0
  /\ calls = [u \in Urls |-> NoFetch]
  /\ cpc = "idle"
  /\ submitted = NoSubmission
  /\ ui = InitialPage
  /\ sessionHistory = <<>>
  /\ submits = 0
  /\ now = 0
  /\ spans = [h \in Holders |-> NoClientSpan]
  /\ fmtSpan = NoSpan
  /\ fmtRecord = <<>>
  /\ writeStream = NoStream
  /\ dirExists = FALSE
  /\ fileExists = FALSE
  /\ streams = <<>>
  /\ file = <<>>
  /\ received = <<>>
  /\ lost = {}
  /\ ncalls = 0
  /\ last = NoCall
  /\ pc = "idle"
  /\ req = NoRequest
  /\ spanCalls = <<>>
  /\ validated = NoValidation
  /\ response = NoResponse
  /\ valRaw = NotAString
  /\ valClient = NoClientValidation
  /\ valServer = NoValidation
  /\ valResent = NoValidation

ClientNext ==
  \/ Tick
  \/ Submit
  \/ OtherFetch
  \/ Settle
  \/ Aggregate
  \/ Return

ClientSpec == ClientInit /\ [][ClientNext]_vars

\* The two validations alone, given any raw input.
ValidationInit ==
  /\ storage = <<>>
  /\ rand = 0
  /\ calls = [u \in Urls |-> NoFetch]
  /\ cpc = "idle"
  /\ submitted = NoSubmission
  /\ ui = InitialPage
  /\ sessionHistory = <<>>
  /\ submits = 0
  /\ now = 0
  /\ spans = [h \in Holders |-> NoClientSpan]
  /\ fmtSpan = NoSpan
  /\ fmtRecord = <<>>
  /\ writeStream = NoStream
  /\ dirExists = FALSE
  /\ fileExists = FALSE
  /\ streams = <<>>
  /\ file = <<>>
  /\ received = <<>>
  /\ lost = {}
  /\ ncalls = 0
  /\ last = NoCall
  /\ pc = "idle"
  /\ req = NoRequest
  /\ spanCalls = <<>>
  /\ validated = NoValidation
  /\ response = NoResponse
  /\ valRaw \in Texts \cup {NotAString}
  /\ valClient = NoClientValidation
  /\ valServer = NoValidation
  /\ valResent = NoValidation

ValidationNext == ValidateBoth

ValidationSpec == ValidationInit /\ [][ValidationNext]_vars

\* =================================================== FileSpanExporter claims

\* Span ids of the records in the sink, in file order.
RECURSIVE RecordIds(_)
RecordIds(f) ==
  IF f = <<>> THEN <<>>
  ELSE IF Head(f).k = "span" THEN <<Head(f).id>> \o RecordIds(Tail(f))
  ELSE RecordIds(Tail(f))

HeaderCount == Cardinality({p \in 1..Len(file) : file[p].k = "header"})
RecordPositions == {p \in 1..Len(file) : file[p].k = "span"}

\* The sink handle's state: UNOPENED until a stream is created, OPEN while the
\* exporter holds one, CLOSED when streams were created and none is held.
SinkState ==
  IF writeStream # NoStream THEN "OPEN"
  ELSE IF Len(streams) = 0 THEN "UNOPENED" ELSE "CLOSED"

\* C1: every export call, in any exporter state and for any span list, sink
\* fault and callback (returning or throwing), invokes resultCallback exactly
\* once and lets no exception escape.
C1_CallbackOnceNoEscape ==
  last.op = "export" => (Len(last.results) = 1 /\ ~last.escaped)

\* C2: an export call with zero spans (empty list, null or undefined) invokes
\* the callback with SUCCESS, and only with it, and leaves the sink as it was:
\* no directory, file or stream is created and nothing is written.
C2_IdleExportNoIO ==
  [][(last'.op = "export" /\ last'.n = 0)
       => (/\ last'.results = <<SUCCESS>>
           /\ UNCHANGED <<writeStream, dirExists, fileExists, streams, file>>)]_vars

\* C2 witness: an idle export of null on an exporter that was never opened,
\* the directory and the file still absent.
C2_Witness ==
  /\ last.op = "export" /\ last.nullish /\ last.results = <<SUCCESS>>
  /\ SinkState = "UNOPENED" /\ ~dirExists /\ ~fileExists /\ file = <<>>

\* C3: when a sink operation throws during an export of one or more spans
\* (mkdir, stream creation, header write, formatting, a stream write), the
\* callback is invoked with FAILURE and with nothing else, the sink's
\* exception does not leave export (whatever leaves is thrown by the callback
\* itself; with a callback that returns, nothing leaves), and a later export
\* that meets no fault is served: it reports SUCCESS and appends its records.
C3_SinkFailureReported ==
  [][last'.op = "export" =>
       /\ last'.threw =>
            (last'.results = <<FAILURE>> /\ (last'.escaped => FAILURE \in last'.cb))
       /\ (lost # {} /\ ~last'.threw /\ last'.n > 0) =>
            (/\ Head(last'.results) = SUCCESS
             /\ Len(RecordIds(file')) = Len(RecordIds(file)) + last'.n
             /\ (last'.cb = {} => ~last'.escaped))]_vars

\* C3 witness: after an export that failed with spans unwritten, a later
\* export of spans reports SUCCESS through a returning callback.
C3_Witness ==
  /\ lost # {}
  /\ last.op = "export" /\ ~last.threw /\ last.n > 0
  /\ last.results = <<SUCCESS>> /\ ~last.escaped

\* C4 (as claimed): every span handed to export has exactly one record in the
\* sink, in the order received, also when a call fails part-way.
C4_EverySpanRecorded == RecordIds(file) = received

\* C4 (amended): the sink holds, in the order received and each exactly once,
\* the records of the spans that precede the first throwing sink operation of
\* their call (all spans of a call in which nothing throws); the spans from
\* the failing one on are skipped. Nothing is duplicated or reordered.
C4_RecordsUpToFailure ==
  RecordIds(file) = SelectSeq(received, LAMBDA id : id \notin lost)

\* C4 witness: a call of two spans threw at its second span: the first has a
\* record, the second has none.
C4_Witness ==
  /\ last.op = "export" /\ last.threw /\ last.n = 2
  /\ received[Len(received)] \in lost
  /\ received[Len(received) - 1] \notin lost
  /\ \E p \in RecordPositions : file[p].id = received[Len(received) - 1]

\* C5: over any sequence of export and shutdown calls the session header is
\* written exactly once, before the first span record.
C5_HeaderOnceBeforeRecords ==
  /\ HeaderCount <= 1
  /\ RecordPositions # {} =>
       (HeaderCount = 1 /\ \A p \in RecordPositions : \E h \in 1..(p - 1) : file[h].k = "header")

\* C6: the sink handle moves UNOPENED -> OPEN -> CLOSED only, CLOSED is
\* terminal (nothing reopens the sink or writes to it), and no stream is ended
\* twice.
C6_ClosedIsTerminal ==
  [][/\ SinkState = "UNOPENED" => SinkState' \in {"UNOPENED", "OPEN"}
     /\ SinkState = "OPEN" => SinkState' \in {"OPEN", "CLOSED"}
     /\ SinkState = "CLOSED" => (SinkState' = "CLOSED" /\ file' = file /\ streams' = streams)
     /\ \A i \in 1..Len(streams') : streams'[i] <= 1]_vars

\* ====================================================== route handler claims

\* Position of the first span.end() among the calls made on the span (0: none).
FirstEnd ==
  IF \E i \in 1..Len(spanCalls) : spanCalls[i] = End
  THEN CHOOSE i \in 1..Len(spanCalls) :
         spanCalls[i] = End /\ \A j \in 1..(i - 1) : spanCalls[j] # End
  ELSE 0

SpanEnded == FirstEnd > 0
ResponseSent == response # NoResponse

\* The calls made on the span before it was first ended.
CallsBeforeEnd == IF SpanEnded THEN SubSeq(spanCalls, 1, FirstEnd - 1) ELSE spanCalls
AttributesAtEnd ==
  {CallsBeforeEnd[i].key : i \in {j \in 1..Len(CallsBeforeEnd) : CallsBeforeEnd[j].op = "setAttribute"}}
InCallsBeforeEnd(c) == \E i \in 1..Len(CallsBeforeEnd) : CallsBeforeEnd[i] = c

\* One step of the handler that has the request.
HandlerStep ==
  Validate \/ Reject \/ Send400 \/ Accept \/ Send200 \/ Catch \/ SendGeneric \/ Finish

ValidationFailed == pc \notin {"idle", "try"} /\ req.fault # "process" /\ ~validated.ok

C8_ValidationFailureTraced ==
  LET n == TextLength(Trim(SanitizeText(GetRawText(req)))) IN
  /\ (pc \notin {"idle", "try"} /\ req.fault # "process") =>
       (~validated.ok <=> (n = 0 \/ n > MAX_TEXT_LENGTH))
  /\ (ValidationFailed /\ pc # "invalid") =>
       /\ validated.error \in {EmptyError, TooLongError(n)}
       /\ SpanEnded
       /\ InCallsBeforeEnd(SetAttribute("validation.error", ErrVal(validated.error)))
       /\ InCallsBeforeEnd(SetStatus(2))
  /\ (ValidationFailed /\ pc = "done" /\ req.fault = "none") =>
       response = ErrorResponse(400, validated.error)

\* C8 witness: a GET /num_vowels request with a text over the limit was
\* answered 400 with the too-long message.
C8_Witness ==
  /\ pc = "done" /\ req.fault = "none" /\ req.method = "GET" /\ req.route = "/num_vowels"
  /\ validated.error = TooLongError(MAX_TEXT_LENGTH + 1)
  /\ response = ErrorResponse(400, TooLongError(MAX_TEXT_LENGTH + 1))
  /\ SpanEnded

C10_AttributesAtEnd ==
  pc \in {"send200", "send400"} =>
    /\ {"http.method", "http.route"} \subseteq AttributesAtEnd
    /\ AttributesAtEnd \cap {"text.length", "vowel.count", "validation.error"} # {}

\* The status code the span has when it is first ended: the code of the last
\* setStatus call made before, the status it was started with when there is
\* none.
StatusCodes(cs) ==
  SelectSeq(cs, LAMBDA c : c.op = "setStatus")
StatusAtEnd ==
  LET s == StatusCodes(CallsBeforeEnd) IN
  IF s = <<>> THEN StartStatus ELSE s[Len(s)].val.n

\* The value of attribute key when the span is first ended (NoVal: not set).
AttributeAtEnd(key) ==
  LET s == SelectSeq(CallsBeforeEnd, LAMBDA c : c.op = "setAttribute" /\ c.key = key) IN
  IF s = <<>> THEN NoVal ELSE s[Len(s)].val

\* The number of a, e, i, o, u in a text, whatever their case.
RECURSIVE VowelsIn(_)
VowelsIn(cs) ==
  IF cs = <<>> THEN 0
  ELSE (IF Head(cs) \in {"a", "e", "i", "o", "u", "A", "E", "I", "O", "U"} THEN 1 ELSE 0)
       + VowelsIn(Tail(cs))

Hello == [pre |-> 0, core |-> <<"H", "e", "l", "l", "o">>]

\* C11: for every request whose text passes validation the span ends with
\* status OK (not UNSET, not ERROR) and with outcome attributes equal to the
\* values of the 200 response: text.length is the number of characters of the
\* sanitized, trimmed text and, on /num_vowels, vowel.count is its number of
\* a, e, i, o, u in either case ("Hello": 5 and 2).
C11_SuccessSpanOK ==
  LET t == Trim(SanitizeText(GetRawText(req))) IN
  /\ pc \in {"send200", "done"} /\ validated.ok /\ req.fault = "none" =>
       /\ StatusAtEnd = STATUS_OK
       /\ AttributeAtEnd("text.length") = NumVal(TextLength(t))
       /\ req.route = "/num_vowels" => AttributeAtEnd("vowel.count") = NumVal(VowelsIn(t.core))
       /\ pc = "done" =>
            response = IF req.route = "/length" THEN LengthResponse(TextLength(t))
                       ELSE VowelResponse(VowelsIn(t.core))
  /\ TextLength(Hello) = 5 /\ CountVowels(Hello) = 2

\* C11 without its status: the outcome attributes of a span ended on the
\* success path equal the values of the 200 response.
C11_OutcomeAttributes ==
  LET t == Trim(SanitizeText(GetRawText(req))) IN
  /\ pc \in {"send200", "done"} /\ validated.ok /\ req.fault = "none" =>
       /\ AttributeAtEnd("text.length") = NumVal(TextLength(t))
       /\ req.route = "/num_vowels" => AttributeAtEnd("vowel.count") = NumVal(VowelsIn(t.core))
       /\ pc = "done" =>
            response = IF req.route = "/length" THEN LengthResponse(TextLength(t))
                       ELSE VowelResponse(VowelsIn(t.core))
  /\ TextLength(Hello) = 5 /\ CountVowels(Hello) = 2

\* The request as it is without the traceparent header.
WithoutHeader(r) == [r EXCEPT !.traceparent = ""]

\* What the handler answers to request r: the fixed body when something
\* throws, else the validation's error or the route's result.
ResponseTo(r) ==
  IF r.fault # "none" THEN CatchResponse
  ELSE LET v == ValidateAndSanitizeText(GetRawText(r)) IN
       IF v.ok THEN Send200Response(r, v) ELSE Send400Response(v)

\* C15: a missing, empty or malformed traceparent is never fatal: for every
\* value of the header each handler answers with the status and body it gives
\* the same request without the header, its span is started and ended, and
\* nothing is thrown because of the token (the catch block is entered only
\* when reading the input or sending the response throws).
C15_TraceparentNeverFatal ==
  /\ pc = "done" => (response = ResponseTo(WithoutHeader(req)) /\ SpanEnded)
  /\ pc \in {"catch", "sendGeneric"} => req.fault # "none"
  /\ (pc = "done" /\ req.fault = "none") =>
       \A i \in 1..Len(spanCalls) : spanCalls[i] # RecordException

\* C15 witness: a request with a malformed traceparent and a valid text was
\* answered 200, its span ended.
C15_Witness ==
  /\ pc = "done" /\ req.traceparent = "garbage" /\ req.fault = "none"
  /\ validated.ok /\ response.status = 200 /\ SpanEnded

\* ================================================== formatReadableSpan claims

\* The label of a status code under the coding the tracers use.
TracerLabel(code) ==
  IF code = STATUS_OK THEN "OK" ELSE IF code = STATUS_ERROR THEN "ERROR" ELSE "UNSET"

\* The status line of the formatted record.
RecordStatusLine == fmtRecord[9]
Pieces(line) == {line[i] : i \in 1..Len(line)}

\* C20: each export record renders the span's status as its numeric code
\* together with the label of that code under the tracers' coding (1 OK,
\* 2 ERROR, anything else UNSET), and the message when there is one.
C20_StatusCodeAndLabel ==
  fmtRecord # <<>> =>
    /\ fmtSpan.status.code # NoCode => ToString(fmtSpan.status.code) \in Pieces(RecordStatusLine)
    /\ TracerLabel(fmtSpan.status.code) \in Pieces(RecordStatusLine)
    /\ fmtSpan.status.message # "" =>
         ("'" \o fmtSpan.status.message \o "'") \in Pieces(RecordStatusLine)

\* C20 without the label: the record renders the status code and the message.
C20_CodeAndMessage ==
  fmtRecord # <<>> =>
    /\ fmtSpan.status.code # NoCode => ToString(fmtSpan.status.code) \in Pieces(RecordStatusLine)
    /\ fmtSpan.status.message # "" =>
         ("'" \o fmtSpan.status.message \o "'") \in Pieces(RecordStatusLine)

\* ======================================================== SimpleTracer claims

\* What C19 says stays as it is once end() was called.
Frozen(span) == <<span.attributes, span.events, span.status, span.endTime, span.duration>>

\* C19: a span created by the client tracer's startSpan is read-only once
\* end() has been called: no later setAttribute, setStatus, recordException
\* or end changes its attributes, events, status, endTime or duration.
C19_ReadOnlyAfterEnd ==
  [][\A h \in Holders :
       (spans[h] # NoClientSpan /\ spans[h].endTime # Undefined)
         => Frozen(spans'[h]) = Frozen(spans[h])]_vars

\* ============================================================ client claims

\* The calls that reached originalFetch.
Made(u) == calls[u].state \in {"pending", "fulfilled", "rejected"}
Token(u) == calls[u].outbound.headers["traceparent"]
TokenTraceId(u) == SubSeq(Token(u), 4, 35)
TokenSpanId(u) == SubSeq(Token(u), 37, 52)

\* C12: the two calls of one submission carry the same traceId and distinct
\* spanIds in their tokens; the traceId generated when there is no current
\* trace is persisted for the session and reused by every call made
\* afterwards.
C12_OneTracePerSession ==
  /\ (Made("/length") /\ Made("/num_vowels")) =>
       (TokenTraceId("/length") = TokenTraceId("/num_vowels")
        /\ TokenSpanId("/length") # TokenSpanId("/num_vowels"))
  /\ \A u \in Urls : Made(u) => storage = TokenTraceId(u)
  /\ \A u, v \in Urls : (Made(u) /\ Made(v)) => TokenTraceId(u) = TokenTraceId(v)

\* C12, the part that holds: the calls made carry pairwise distinct spanIds.
C12_DistinctSpanIds ==
  \A u, v \in Urls : (Made(u) /\ Made(v) /\ u # v) => TokenSpanId(u) # TokenSpanId(v)

\* A token of the shape 00-<32 hex>-<16 hex>-01.
TokenShape(token) ==
  /\ Len(token) = 55
  /\ SubSeq(token, 1, 3) = <<"0", "0", "-">>
  /\ IsHex(SubSeq(token, 4, 35))
  /\ token[36] = "-"
  /\ IsHex(SubSeq(token, 37, 52))
  /\ SubSeq(token, 53, 55) = <<"-", "0", "1">>

\* C13: every call handed to the underlying fetch by the instrumented fetch
\* carries, whatever headers and options its caller passed, exactly one
\* traceparent header, of the shape 00-<32 hex>-<16 hex>-01.
C13_TraceparentOnEveryCall ==
  \A u \in Urls : Made(u) =>
    /\ "traceparent" \in DOMAIN calls[u].outbound.headers
    /\ "Traceparent" \notin DOMAIN calls[u].outbound.headers
    /\ TokenShape(Token(u))

\* C13 witness: a call whose caller passed a Traceparent header of its own
\* went out with a well-formed token.
C13_Witness ==
  /\ Made("/other")
  /\ calls["/other"].options.headers = ("Traceparent" :> Garbage)
  /\ TokenShape(Token("/other"))

Started(h) == spans[h] # NoClientSpan
Ended(h) == spans[h].endTime # Undefined
HasException(h) ==
  \E i \in 1..Len(spans[h].events) : spans[h].events[i].name = "exception"
Failed(h) == HasException(h) /\ spans[h].status.code = STATUS_ERROR

\* C16: every span the client starts around an operation (the instrumented
\* fetch's span, fetch_length_api, fetch_vowels_api, form_submit) has the
\* exception recorded and status ERROR when the operation failed, and has
\* been ended when the operation is over, however it went.
C16_ClientSpansClosed ==
  /\ \A u \in Urls :
       /\ calls[u].state = "rejected" => (Failed(FetchHolder(u)) /\ Ended(FetchHolder(u)))
       /\ (calls[u].state \in {"fulfilled", "threw"} /\ Started(FetchHolder(u)))
            => Ended(FetchHolder(u))
  /\ \A u \in HandlerUrls :
       /\ calls[u].state = "rejected" => (Failed(ChildHolder(u)) /\ Ended(ChildHolder(u)))
       /\ calls[u].state = "fulfilled" => Ended(ChildHolder(u))
  /\ (cpc = "done" /\ submitted.ok) =>
       /\ Ended("parentSpan")
       /\ ~ui.errorHidden => Failed("parentSpan")

\* C16, the parts that hold: a span of the instrumented fetch whose call was
\* rejected has the exception, status ERROR and is ended; the spans of the
\* submit handler are ended when their operation is over; form_submit has the
\* exception and status ERROR when the wait failed.
C16_EndedOnSettle ==
  /\ \A u \in Urls :
       /\ calls[u].state = "rejected" => (Failed(FetchHolder(u)) /\ Ended(FetchHolder(u)))
       /\ calls[u].state = "fulfilled" => Ended(FetchHolder(u))
  /\ \A u \in HandlerUrls :
       calls[u].state \in {"fulfilled", "rejected"} => Ended(ChildHolder(u))
  /\ (cpc = "done" /\ submitted.ok) =>
       /\ Ended("parentSpan")
       /\ ~ui.errorHidden => Failed("parentSpan")

\* C17: whichever call settles first, the handler shows no result and no
\* error, does not end form_submit and does not enable the button while one
\* of its two calls is pending.
C17_WaitsForBoth ==
  (submitted.ok /\ \E u \in HandlerUrls : calls[u].state = "pending") =>
    /\ ui.disabled
    /\ ui.errorHidden /\ ui.resultsHidden
    /\ ~Ended("parentSpan")

\* A call that failed: rejected, or answered with a non-OK response.
CallFailed(u) ==
  calls[u].state = "rejected" \/ (calls[u].state = "fulfilled" /\ ~calls[u].result.ok)
CallSucceeded(u) == calls[u].state = "fulfilled" /\ calls[u].result.ok

\* The failing call's own message: the network error's, or the error of the
\* response body.
OwnMessage(u) ==
  IF calls[u].state = "rejected" THEN Message(NetworkError.message)
  ELSE calls[u].result.error

\* C18: when one of the two calls fails (network error, or non-OK response
\* with {error: message}) and the other succeeds, the page shows the results
\* area with the succeeding call's value and the failing call's own message,
\* and no exception comes out of the combined wait (the error area stays
\* hidden and form_submit records no exception).
C18_PartialSuccess ==
  (cpc = "done" /\ submitted.ok) =>
    /\ (CallFailed("/length") /\ CallSucceeded("/num_vowels")) =>
         /\ ~ui.resultsHidden /\ ui.errorHidden
         /\ ~ui.vowelValueHidden /\ ui.vowelValue = calls["/num_vowels"].result.value
         /\ ~ui.lengthErrorHidden /\ ui.lengthError = OwnMessage("/length")
         /\ ~HasException("parentSpan")
    /\ (CallFailed("/num_vowels") /\ CallSucceeded("/length")) =>
         /\ ~ui.resultsHidden /\ ui.errorHidden
         /\ ~ui.lengthValueHidden /\ ui.lengthValue = calls["/length"].result.value
         /\ ~ui.vowelErrorHidden /\ ui.vowelError = OwnMessage("/num_vowels")
         /\ ~HasException("parentSpan")

\* C18, the part that holds: when one call is answered with a non-OK response
\* and the other succeeds, the results area shows the succeeding call's value
\* and an error in the failing call's place, and the error area stays hidden.
C18_NonOkResponse ==
  (cpc = "done" /\ submitted.ok
     /\ calls["/length"].state = "fulfilled" /\ calls["/num_vowels"].state = "fulfilled"
     /\ ~calls["/length"].result.ok /\ calls["/num_vowels"].result.ok) =>
    /\ ~ui.resultsHidden /\ ui.errorHidden
    /\ ~ui.vowelValueHidden /\ ui.vowelValue = calls["/num_vowels"].result.value
    /\ ~ui.lengthErrorHidden /\ ui.lengthError # NoMessage

\* ======================================================== validation claims

\* The raw input with its control characters stripped and trimmed.
Cleaned(raw) == Trim(SanitizeText(raw))
Validated == valClient # NoClientValidation \/ valServer # NoValidation

\* C21: for every raw input validateInput and validateAndSanitizeText agree:
\* both accept, with the same text (the input without its control characters,
\* trimmed), exactly when that text has between 1 and 100,000 characters, and
\* both reject otherwise; and the text the client accepted, sent to the
\* server, is accepted by validateAndSanitizeText as it is.
C21_SameValidation ==
  Validated =>
    LET n == TextLength(Cleaned(valRaw)) IN
    /\ valClient.ok = valServer.ok
    /\ valClient.ok <=> (1 <= n /\ n <= 100000)
    /\ valClient.ok =>
         /\ valClient.text = Cleaned(valRaw)
         /\ valServer.text = valClient.text
         /\ valResent.ok /\ valResent.text = valClient.text

\* C21 witness: an input of 100,001 characters, 100,000 once its control
\* character is gone, is accepted by both, with the same text.
C21_Witness ==
  /\ valRaw = [pre |-> MAX_TEXT_LENGTH - 1, core |-> <<"ctl", "a">>]
  /\ valClient.ok /\ valServer.ok
  /\ TextLength(valClient.text) = MAX_TEXT_LENGTH
  /\ valResent.ok

\* ==================================================== span ends per request

\* The number of span.end() calls the handler has made for the request.
EndCalls == Cardinality({i \in DOMAIN spanCalls : spanCalls[i] = End})

\* The handler has made an end() call for every way it leaves.
C22_EndedWhenDone == pc \in {"done", "sendGeneric"} => EndCalls >= 1

\* C22: a handler calls span.end() exactly once per request on every path: at
\* no point has it made more than one end() call, and when the handler is
\* done it has made one; this includes the path where res.json or
\* res.status(400).json throws after the span was ended and the catch block
\* runs.
C22_EndExactlyOnce ==
  /\ EndCalls <= 1
  /\ pc = "done" => EndCalls = 1

\* ================================================= form_submit's enclosure

\* The child span was started and ended, no later than form_submit.
EndedWithin(h) ==
  /\ Started(h) /\ Ended(h)
  /\ spans[h].endTime <= spans["parentSpan"].endTime

\* C23: form_submit encloses its children in time: in every interleaving of
\* the two calls, the one where one call fails while the other is pending
\* included, form_submit is ended only when fetch_length_api and
\* fetch_vowels_api have both ended, and not before them.
C23_ParentEndsLast ==
  (Started("parentSpan") /\ Ended("parentSpan")) =>
    (EndedWithin("lengthSpan") /\ EndedWithin("vowelSpan"))

\* C23, the part that holds: when both calls are fulfilled, form_submit is
\* ended after both children.
C23_EnclosesWhenBothFulfilled ==
  (Started("parentSpan") /\ Ended("parentSpan")
     /\ \A u \in HandlerUrls : calls[u].state = "fulfilled") =>
    (EndedWithin("lengthSpan") /\ EndedWithin("vowelSpan"))

====
